---- MODULE Spec2Model ----
(***************************************************************************)
(* Model of sparse_rec_condatvu                                            *)
(* (pisap/plugins/mri/dictionary_learning/reconstruct.py): the Condat-Vu   *)
(* sparse reconstruction with reweightings.                                *)
(*                                                                         *)
(* One call is a sequential program; pc is its position.  Arrays live on   *)
(* a heap and are named by references, because the code shares them        *)
(* (opt.x_final = opt.x_new, Threshold(reweight_op.weights)).  The content *)
(* of an array is a term: the value it was last filled with and the        *)
(* history of the operations applied to it since, so that two arrays are   *)
(* equal in the model only if the same operations produced them.           *)
(* Reals are exact rationals <<n, d>>; an optional value is <<>> (None)    *)
(* or the value in a tuple.                                                *)
(***************************************************************************)
EXTENDS Integers, Sequences, FiniteSets, TLC

\* ------------------------------------------------------------------ bounds
MaxIter == 2
MaxReweights == 2

\* --------------------------------------------------------------- rationals
Abs(n) == IF n < 0 THEN -n ELSE n

RECURSIVE GCD(_, _)
GCD(a, b) == IF b = 0 THEN a ELSE GCD(b, a % b)

RNorm(n, d) ==
    LET g == GCD(Abs(n), Abs(d))
        s == IF d < 0 THEN -1 ELSE 1
    IN  <<(s * n) \div g, (s * d) \div g>>

RInt(n) == <<n, 1>>
RAdd(p, q) == RNorm(p[1] * q[2] + q[1] * p[2], p[2] * q[2])
RSub(p, q) == RNorm(p[1] * q[2] - q[1] * p[2], p[2] * q[2])
RMul(p, q) ==
    LET g == GCD(Abs(p[1]), Abs(q[2]))
        h == GCD(Abs(q[1]), Abs(p[2]))
    IN  RNorm((p[1] \div g) * (q[1] \div h), (p[2] \div h) * (q[2] \div g))
RInv(p) == RNorm(p[2], p[1])
RGeq(p, q) == p[1] * q[2] >= q[1] * p[2]
RIsZero(p) == p[1] = 0

None == <<>>
IsNone(v) == v = <<>>
Some(v) == <<v>>
Val(o) == o[1]

\* ------------------------------------------------------------ array terms
\* One entry of an array's history: kind names the operation, a, b, c its
\* operands (for an update: the fill and generation of the weights used by
\* the dual proximity operator and the number of operations already applied
\* to the other array of the pair).
Stamp(kind, a, b, c) == [kind |-> kind, a |-> a, b |-> b, c |-> c]

\* np.zeros(shape)
ZeroArr == [fill |-> 0, hist |-> <<>>]

\* arr[...] = v
Filled(v) == [fill |-> v, hist |-> <<>>]

\* linear_op.op(arr): a new array in the coefficient domain
LinOp(arr) == [arr EXCEPT !.hist = Append(@, Stamp("linop", 0, 0, 0))]

\* linear_op.set_coeff(arr); linear_op.coeff
Coeff(arr) == [arr EXCEPT !.hist = Append(@, Stamp("coeff", 0, 0, 0))]

RECURSIVE CountKind(_, _)
CountKind(h, kind) ==
    IF h = <<>> THEN 0
    ELSE (IF Head(h).kind = kind THEN 1 ELSE 0) + CountKind(Tail(h), kind)

\* number of reweightings that produced the weights w
Gen(w) == CountKind(w.hist, "rw")

\* number of iterator updates applied to the array
NbUpdates(arr) == CountKind(arr.hist, "upd")

IsPrefix(s, t) == Len(s) <= Len(t) /\ SubSeq(t, 1, Len(s)) = s

NullRef == 0

VARIABLES
    arg,        \* the arguments of the call and the operators' properties
    pc,         \* position in sparse_rec_condatvu
    loc,        \* the local variables of the call
    heap,       \* the arrays allocated so far, indexed by reference
    reweight_op,\* reference held by reweight_op.weights (NullRef: no object)
    prox_dual_op,\* reference held by prox_dual_op.weights
    opt,        \* the Condat optimizer object
    cost_op,    \* the DualGapCost object
    trace,      \* operator and iterator calls made so far, in order
    out,        \* lines printed so far
    result,     \* <<>> or <<x_final, linear_op.coeff>>
    error,      \* "" or the exception raised
    stats,      \* history: updates per pass
    call,       \* 1 for the first call, 2 for the repeated one
    prev        \* outcome of the first call, once the second has started

vars == <<arg, pc, loc, heap, reweight_op, prox_dual_op, opt, cost_op,
          trace, out, result, error, stats, call, prev>>

\* ------------------------------------------------------------------ inputs
eps == <<1, 100000000>>
DefaultSigma == <<1, 2>>

Methods == {"None", "primal", "dual", "wavelet"}
Verbosity == {0, 1}

\* 1/(1 + 0.25 + eps) and 1/(1 + 0.5 + eps)
TauQuarter == RInv(RAdd(<<5, 4>>, eps))
TauHalf == RInv(RAdd(<<3, 2>>, eps))

NoOpt ==
    [built |-> FALSE, x |-> NullRef, y |-> NullRef,
     x_new |-> NullRef, y_new |-> NullRef,
     x_final |-> NullRef, y_final |-> NullRef,
     prox |-> "", rho |-> 0, sigma |-> None, tau |-> None,
     converge |-> FALSE]

NoCost == [built |-> FALSE, iteration |-> 0]

NoStats == [first |-> 0, cont |-> <<>>, past_converged |-> 0]

\* Local variables at entry: the parameters the body rebinds, and the
\* names not yet bound.
EntryLocals(a) ==
    [std_est |-> a.std_est, nb_of_reweights |-> a.nb_of_reweights,
     tau |-> a.tau, sigma |-> a.sigma, convergence_test |-> FALSE,
     norm |-> 0, lipschitz_cst |-> 0,
     x_init |-> NullRef, weights |-> NullRef,
     primal |-> NullRef, dual |-> NullRef,
     i |-> 0, reweight_index |-> 0]

Entry(a, c, p) ==
    /\ arg = a
    /\ pc = "start"
    /\ loc = EntryLocals(a)
    /\ heap = <<>>
    /\ reweight_op = NullRef
    /\ prox_dual_op = NullRef
    /\ opt = NoOpt
    /\ cost_op = NoCost
    /\ trace = <<>>
    /\ out = <<>>
    /\ result = <<>>
    /\ error = ""
    /\ stats = NoStats
    /\ call = c
    /\ prev = p

NoPrev == [outcome |-> "", error |-> "", trace |-> <<>>, result |-> <<>>,
           verbose |-> 0]

\* Calls that vary the control parameters, with the default step sizes.
Args ==
    [std_est_method : Methods,
     std_est : {None, Some(1)},
     std_thr : {2},
     mu : {1, -1},
     tau : {None, RInt(0)},
     sigma : {None},
     relaxation_factor : {1},
     nb_of_reweights : 0 .. MaxReweights,
     max_nb_of_iter : 0 .. MaxIter,
     add_positivity : {FALSE},
     verbose : Verbosity,
     spec_rad : {2},
     l2norm : {1},
     mad : {1},
     conv_at : {1, MaxIter + 1},
     rw_in_place : BOOLEAN]

Init == \E a \in Args : Entry(a, 1, NoPrev)


\* ----------------------------------------------------------------- helpers
Line(label, val) == [label |-> label, val |-> val]

Say(o, lines) == IF arg.verbose > 0 THEN o \o lines ELSE o

Raise(exc) ==
    /\ error' = exc
    /\ pc' = "failed"

\* ------------------------------------------------- lines 92-95: entry
Begin ==
    /\ pc = "start"
    /\ out' = Say(out, <<Line("logo", <<>>)>>)
    /\ pc' = "check"
    /\ UNCHANGED <<arg, loc, heap, reweight_op, prox_dual_op, opt, cost_op,
                   trace, result, error, stats, call, prev>>

\* ------------------------------------------------- lines 97-99: the check
AcceptsAnyMethod(m) == TRUE

ValidMethod(m) == m \in {"None", "primal", "dual"}

CheckMethod ==
    /\ pc = "check"
    /\ IF ValidMethod(arg.std_est_method)
       THEN pc' = "alloc" /\ UNCHANGED error
       ELSE Raise("ValueError")
    /\ UNCHANGED <<arg, loc, heap, reweight_op, prox_dual_op, opt, cost_op,
                   trace, out, result, stats, call, prev>>

\* ------------------------------------------------- lines 102-103
AllocInit ==
    /\ pc = "alloc"
    /\ heap' = heap \o <<ZeroArr, LinOp(ZeroArr)>>
    /\ loc' = [loc EXCEPT !.x_init = Len(heap) + 1, !.weights = Len(heap) + 2]
    /\ trace' = Append(trace, "linear_op.op")
    /\ pc' = "derive"
    /\ UNCHANGED <<arg, reweight_op, prox_dual_op, opt, cost_op, out, result,
                   error, stats, call, prev>>

\* ------------------------------------------------- lines 108-129
\* The noise estimate in use after the case analysis.
DerivedStd(method, std_est, mad) ==
    IF ~IsNone(std_est) THEN std_est
    ELSE IF method = "primal" THEN Some(mad)
    ELSE IF method = "dual" THEN Some(0)
    ELSE std_est

\* The value the weights are filled with.
InitialWeight(method, std_thr, std_est, mu) ==
    IF method \in {"primal", "dual"} THEN std_thr * Val(std_est) ELSE mu

KeepsReweights(method, n) == n

\* The number of reweights in use after the case analysis.
EffectiveReweights(method, n) ==
    IF method \in {"primal", "dual"} THEN n ELSE 0

Derive ==
    /\ pc = "derive"
    /\ LET m == arg.std_est_method
           est == DerivedStd(m, loc.std_est, arg.mad)
           estimated == m = "primal" /\ IsNone(loc.std_est)
       IN  /\ loc' = [loc EXCEPT
                        !.std_est = est,
                        !.nb_of_reweights = EffectiveReweights(m, @)]
           /\ heap' = [heap EXCEPT ![loc.weights] =
                          Filled(InitialWeight(m, arg.std_thr, est, arg.mu))]
           /\ reweight_op' =
                  IF m \in {"primal", "dual"} THEN loc.weights ELSE NullRef
           /\ prox_dual_op' = loc.weights
           /\ trace' = IF estimated
                       THEN trace \o <<"gradient_op.MtX", "sigma_mad">>
                       ELSE trace
    /\ pc' = "stepsize"
    /\ UNCHANGED <<arg, opt, cost_op, out, result, error, stats, call, prev>>

\* ------------------------------------------------- lines 134-144
Square(n) == n * n

ChosenSigma(sigma) == IF IsNone(sigma) THEN DefaultSigma ELSE sigma

\* line 142
DeriveTau(lipschitz_cst, sigma, norm) ==
    RInv(RAdd(RAdd(RNorm(lipschitz_cst, 2), RMul(sigma, RInt(Square(norm)))),
              eps))

AlwaysDerivedTau(tau, lipschitz_cst, sigma, norm) ==
    DeriveTau(lipschitz_cst, sigma, norm)

ChosenTau(tau, lipschitz_cst, sigma, norm) ==
    IF IsNone(tau) THEN DeriveTau(lipschitz_cst, sigma, norm) ELSE tau

StrictCertificate(tau, sigma, norm, lipschitz_cst) ==
    ~RGeq(RNorm(lipschitz_cst, 2),
          RSub(RInv(tau), RMul(sigma, RInt(Square(norm)))))

\* lines 143-144
Certificate(tau, sigma, norm, lipschitz_cst) ==
    RGeq(RSub(RInv(tau), RMul(sigma, RInt(Square(norm)))),
         RNorm(lipschitz_cst, 2))

\* The locals after lines 134-144; the division of line 144 raises before
\* convergence_test is bound when tau is zero.
StepSizeLocals(l, norm, lip) ==
    LET s == ChosenSigma(l.sigma)
        t == ChosenTau(l.tau, lip, s, norm)
    IN  [l EXCEPT !.norm = norm, !.lipschitz_cst = lip, !.sigma = s,
                  !.tau = t,
                  !.convergence_test =
                      IF RIsZero(t) THEN @ ELSE Certificate(t, s, norm, lip)]

StepSize ==
    /\ pc = "stepsize"
    /\ trace' = Append(trace, "linear_op.l2norm")
    /\ loc' = StepSizeLocals(loc, arg.l2norm, arg.spec_rad)
    /\ IF RIsZero(StepSizeLocals(loc, arg.l2norm, arg.spec_rad).tau)
       THEN Raise("ZeroDivisionError")
       ELSE pc' = "init_pd" /\ UNCHANGED error
    /\ UNCHANGED <<arg, heap, reweight_op, prox_dual_op, opt, cost_op, out,
                   result, stats, call, prev>>

\* ------------------------------------------------- lines 146-165
UnclearedDual(primal) == LinOp(primal)

\* lines 148-149: dual = linear_op.op(primal); dual[...] = 0.0
InitialDual(primal) == Filled(0)

Bit(b) == IF b THEN 1 ELSE 0

Welcome ==
    <<Line("mu", <<arg.mu>>),
      Line("lipschitz constant", <<arg.spec_rad>>),
      Line("tau", loc.tau),
      Line("sigma", loc.sigma),
      Line("rho", <<arg.relaxation_factor>>),
      Line("std", loc.std_est),
      Line("1/tau - sigma||L||^2 >= beta/2", <<Bit(loc.convergence_test)>>),
      Line("data", <<>>),
      Line("max iterations", <<arg.max_nb_of_iter>>),
      Line("number of reweights", <<loc.nb_of_reweights>>),
      Line("primal variable shape", <<>>),
      Line("dual variable shape", <<>>),
      Line("----", <<>>)>>

InitPrimalDual ==
    /\ pc = "init_pd"
    /\ heap' = heap \o <<ZeroArr, InitialDual(ZeroArr)>>
    /\ loc' = [loc EXCEPT !.primal = Len(heap) + 1, !.dual = Len(heap) + 2]
    /\ trace' = Append(trace, "linear_op.op")
    /\ out' = Say(out, Welcome)
    /\ pc' = "build"
    /\ UNCHANGED <<arg, reweight_op, prox_dual_op, opt, cost_op, result,
                   error, stats, call, prev>>


\* ------------------------------------------------- the Splitting Iterator
\* Condat(x=..., y=..., ...): the iterator works on the pair it is given;
\* its current solution is that pair from construction on.
CondatNew(x, y, prox, rho, sigma, tau) ==
    [built |-> TRUE, x |-> x, y |-> y, x_new |-> x, y_new |-> y,
     x_final |-> NullRef, y_final |-> NullRef,
     prox |-> prox, rho |-> rho, sigma |-> sigma, tau |-> tau,
     converge |-> FALSE]

\* DualGapCost.get_cost: one more evaluation; reports convergence from the
\* conv_at-th evaluation on (a property of the data).
CostEval(c, conv_at) ==
    LET n == c.iteration + 1
    IN  [cost |-> [c EXCEPT !.iteration = n], converged |-> n >= conv_at]

\* One update of the pair, in place: primal step, dual step thresholded with
\* the weights the dual proximity operator holds now, relaxation; then the
\* cost is evaluated.  s = [heap, opt, cost, late]; late counts the updates
\* made although the converged flag was already set.
CondatUpdate(s, w_ref, conv_at) ==
    LET o == s.opt
        x == s.heap[o.x_new]
        y == s.heap[o.y_new]
        w == s.heap[w_ref]
        nx == [x EXCEPT !.hist =
                  Append(@, Stamp("upd", w.fill, Gen(w), Len(y.hist)))]
        ny == [y EXCEPT !.hist =
                  Append(@, Stamp("upd", w.fill, Gen(w), Len(x.hist)))]
        ev == CostEval(s.cost, conv_at)
    IN  [heap |-> [s.heap EXCEPT ![o.x_new] = nx, ![o.y_new] = ny],
         opt |-> [o EXCEPT !.converge = ev.converged],
         cost |-> ev.cost,
         late |-> s.late + Bit(o.converge)]

\* opt.iterate(max_iter): max_iter updates from the carried-over pair.
RECURSIVE CondatIterate(_, _, _, _)
CondatIterate(s, w_ref, conv_at, max_iter) ==
    IF max_iter = 0 THEN s
    ELSE CondatIterate(CondatUpdate(s, w_ref, conv_at), w_ref, conv_at,
                       max_iter - 1)

IterState == [heap |-> heap, opt |-> opt, cost |-> cost_op, late |-> 0]

\* ------------------------------------------------- lines 167-202
ProxOp(add_positivity) == IF add_positivity THEN "Positive" ELSE "Identity"

BuildOptimizer ==
    /\ pc = "build"
    /\ cost_op' = [built |-> TRUE, iteration |-> 0]
    /\ opt' = CondatNew(loc.primal, loc.dual, ProxOp(arg.add_positivity),
                        arg.relaxation_factor, loc.sigma, loc.tau)
    /\ out' = Say(out, <<Line("Starting optimization...", <<>>)>>)
    /\ pc' = "first_pass"
    /\ UNCHANGED <<arg, loc, heap, reweight_op, prox_dual_op, trace, result,
                   error, stats, call, prev>>

\* ------------------------------------------------- lines 204-205
FirstPassUpdate ==
    /\ pc = "first_pass"
    /\ loc.i < arg.max_nb_of_iter
    /\ LET s == CondatUpdate(IterState, prox_dual_op, arg.conv_at)
       IN  /\ heap' = s.heap
           /\ opt' = s.opt
           /\ cost_op' = s.cost
           /\ stats' = [stats EXCEPT !.first = @ + 1,
                                     !.past_converged = @ + s.late]
    /\ loc' = [loc EXCEPT !.i = @ + 1]
    /\ trace' = Append(trace, "opt.update")
    /\ UNCHANGED <<arg, pc, reweight_op, prox_dual_op, out, result, error,
                   call, prev>>

\* ------------------------------------------------- lines 207-208
CopiesFinal(s) ==
    [heap |-> s.heap \o <<s.heap[s.opt.x_new], s.heap[s.opt.y_new]>>,
     opt |-> [s.opt EXCEPT !.x_final = Len(s.heap) + 1,
                           !.y_final = Len(s.heap) + 2]]

\* opt.x_final = opt.x_new; opt.y_final = opt.y_new
BindFinal(s) ==
    [heap |-> s.heap,
     opt |-> [s.opt EXCEPT !.x_final = s.opt.x_new, !.y_final = s.opt.y_new]]

FirstPassEnd ==
    /\ pc = "first_pass"
    /\ loc.i >= arg.max_nb_of_iter
    /\ LET s == BindFinal(IterState)
       IN  heap' = s.heap /\ opt' = s.opt
    /\ pc' = "rw_loop"
    /\ UNCHANGED <<arg, loc, reweight_op, prox_dual_op, cost_op, trace, out,
                   result, error, stats, call, prev>>

\* ------------------------------------------------- lines 211-222
\* cwbReweight.reweight(data): the weights are rescaled from the transform
\* of the current solution; no value is returned.
CwbReweight(w, data) ==
    [w EXCEPT !.hist = Append(@, Stamp("rw", Gen(w) + 1, NbUpdates(data), 0))]

\* mReweight.reweight(x_new): the weights become thresh_factor times the
\* noise scale estimated from the current solution, which is returned.
MReweight(w, x_new, thresh_factor, mad) ==
    [fill |-> thresh_factor * mad,
     hist |-> Append(w.hist, Stamp("rw", Gen(w) + 1, NbUpdates(x_new), 0))]

\* Where the strategy leaves its weights: in the array it holds, or in a
\* new one bound to reweight_op.weights.
Store(h, ref, w, in_place) ==
    IF in_place
    THEN [heap |-> [h EXCEPT ![ref] = w], ref |-> ref]
    ELSE [heap |-> Append(h, w), ref |-> Len(h) + 1]

ReweightLines ==
    <<Line("reweight", <<loc.reweight_index + 1>>), Line("std", loc'.std_est)>>

SolutionAfterReset(h, o) ==
    [h EXCEPT ![o.x_new] = ZeroArr, ![o.y_new] = ZeroArr]

\* The arrays as the reweighting step leaves them, but for the weights.
SolutionAfterReweight(h, o) == h

ReweightOnlyIfVerbose == arg.verbose > 0

\* line 211 enters the body; lines 214-217 run unconditionally
ReweightRuns == TRUE

Reweight ==
    /\ pc = "rw_loop"
    /\ loc.reweight_index < loc.nb_of_reweights
    /\ IF ~ReweightRuns
       THEN /\ pc' = "set_weights"
            /\ UNCHANGED <<loc, heap, reweight_op, trace, error>>
       ELSE IF reweight_op = NullRef
       THEN /\ Raise("AttributeError")
            /\ UNCHANGED <<loc, heap, reweight_op, trace>>
       ELSE LET x == heap[opt.x_new]
                w == heap[reweight_op]
                primal == arg.std_est_method = "primal"
                nw == IF primal
                      THEN CwbReweight(w, LinOp(x))
                      ELSE MReweight(w, x, arg.std_thr, arg.mad)
                st == Store(SolutionAfterReweight(heap, opt), reweight_op, nw,
                            arg.rw_in_place)
            IN  /\ heap' = st.heap
                /\ reweight_op' = st.ref
                /\ loc' = IF primal THEN loc
                          ELSE [loc EXCEPT !.std_est = Some(arg.mad)]
                /\ trace' = IF primal
                            THEN trace \o <<"linear_op.op", "reweight_op.reweight">>
                            ELSE Append(trace, "reweight_op.reweight")
                /\ pc' = "set_weights"
                /\ UNCHANGED error
    /\ out' = Say(out, ReweightLines)
    /\ UNCHANGED <<arg, prox_dual_op, opt, cost_op, result, stats, call, prev>>

\* ------------------------------------------------- line 225
KeepsProxWeights ==
    /\ pc = "set_weights"
    /\ pc' = "iterate"
    /\ UNCHANGED <<arg, loc, heap, reweight_op, prox_dual_op, opt, cost_op,
                   trace, out, result, error, stats, call, prev>>

\* prox_dual_op.weights = reweight_op.weights
SetProxWeights ==
    /\ pc = "set_weights"
    /\ prox_dual_op' = reweight_op
    /\ pc' = "iterate"
    /\ UNCHANGED <<arg, loc, heap, reweight_op, opt, cost_op, trace, out,
                   result, error, stats, call, prev>>

\* ------------------------------------------------- line 228
DefaultMaxIter(max_nb_of_iter) == MaxIter + 1

\* opt.iterate(max_iter=max_nb_of_iter)
IterateBound(max_nb_of_iter) == max_nb_of_iter

Iterate ==
    /\ pc = "iterate"
    /\ LET n == IterateBound(arg.max_nb_of_iter)
           s == CondatIterate(IterState, prox_dual_op, arg.conv_at, n)
       IN  /\ heap' = s.heap
           /\ opt' = s.opt
           /\ cost_op' = s.cost
           /\ stats' = [stats EXCEPT
                          !.cont = Append(@, s.cost.iteration - cost_op.iteration),
                          !.past_converged = @ + s.late]
    /\ loc' = [loc EXCEPT !.reweight_index = @ + 1]
    /\ trace' = Append(trace, "opt.iterate")
    /\ pc' = "rw_loop"
    /\ UNCHANGED <<arg, reweight_op, prox_dual_op, out, result, error, call,
                   prev>>

\* ------------------------------------------------- lines 230-244
Goodbye ==
    <<Line("final iteration number", <<cost_op.iteration>>),
      Line("final cost value", <<>>),
      Line("converged", <<Bit(opt.converge)>>),
      Line("Done.", <<>>),
      Line("Execution time", <<>>),
      Line("----", <<>>)>>

\* x_final = opt.x_final; linear_op.set_coeff(opt.y_final);
\* return x_final, linear_op.coeff
Returned(h, o) == <<h[o.x_final], Coeff(h[o.y_final])>>

Finish ==
    /\ pc = "rw_loop"
    /\ loc.reweight_index >= loc.nb_of_reweights
    /\ out' = Say(out, Goodbye)
    /\ trace' = Append(trace, "linear_op.set_coeff")
    /\ result' = Returned(heap, opt)
    /\ pc' = "done"
    /\ UNCHANGED <<arg, loc, heap, reweight_op, prox_dual_op, opt, cost_op,
                   error, stats, call, prev>>

\* ------------------------------------------------- a second call
\* The same call again, with only the verbosity changed.
NextCall ==
    /\ call = 1
    /\ pc \in {"done", "failed"}
    /\ \E v \in Verbosity \ {arg.verbose} :
          arg' = [arg EXCEPT !.verbose = v]
    /\ pc' = "start"
    /\ loc' = EntryLocals(arg)
    /\ heap' = <<>>
    /\ reweight_op' = NullRef
    /\ prox_dual_op' = NullRef
    /\ opt' = NoOpt
    /\ cost_op' = NoCost
    /\ trace' = <<>>
    /\ out' = <<>>
    /\ result' = <<>>
    /\ error' = ""
    /\ stats' = NoStats
    /\ call' = 2
    /\ prev' = [outcome |-> pc, error |-> error, trace |-> trace,
                result |-> result, verbose |-> arg.verbose]

Next ==
    \/ Begin
    \/ CheckMethod
    \/ AllocInit
    \/ Derive
    \/ StepSize
    \/ InitPrimalDual
    \/ BuildOptimizer
    \/ FirstPassUpdate
    \/ FirstPassEnd
    \/ Reweight
    \/ SetProxWeights
    \/ Iterate
    \/ Finish
    \/ NextCall

Spec == Init /\ [][Next]_vars


\* Calls that vary the step sizes and the operators' spectral bounds.
NumArgs ==
    [std_est_method : Methods,
     std_est : {None},
     std_thr : {2},
     mu : {1},
     tau : {None, RInt(0), <<4, 5>>, <<2, 3>>, RInt(1), TauQuarter, TauHalf},
     sigma : {None, <<1, 2>>, RInt(1)},
     relaxation_factor : {1},
     nb_of_reweights : {1},
     max_nb_of_iter : {1},
     add_positivity : BOOLEAN,
     verbose : Verbosity,
     spec_rad : 0 .. 2,
     l2norm : 0 .. 2,
     mad : {1},
     conv_at : {1},
     rw_in_place : {TRUE}]

InitNum == \E a \in NumArgs : Entry(a, 1, NoPrev)

SpecNum == InitNum /\ [][Next]_vars

\* ------------------------------------------------------------ properties
RECURSIVE SumSeq(_)
SumSeq(q) == IF q = <<>> THEN 0 ELSE Head(q) + SumSeq(Tail(q))

Range(q) == {q[k] : k \in 1 .. Len(q)}

Recognised == {"None", "primal", "dual"}

Ended == pc \in {"done", "failed"}

\* the case analysis of lines 108-129 has run
Derived == prox_dual_op # NullRef

\* the step sizes and the certificate of lines 134-144 are computed
StepSizesSet == pc \in {"init_pd", "build", "first_pass", "rw_loop",
                        "set_weights", "iterate", "done"}

\* C1: a call whose estimation mode is not None, "primal" or "dual" never
\* allocates an array, calls an operator, builds or updates the iterator or
\* returns a value; it can only fail, and then with ValueError.
C1_InvalidModeFailsFast ==
    arg.std_est_method \notin Recognised =>
        /\ heap = <<>>
        /\ trace = <<>>
        /\ ~opt.built /\ ~cost_op.built
        /\ reweight_op = NullRef /\ prox_dual_op = NullRef
        /\ stats = NoStats
        /\ result = <<>>
        /\ pc \in {"start", "check", "failed"}
        /\ (pc = "failed" => error = "ValueError")

C1_Witness ==
    /\ arg.std_est_method = "wavelet"
    /\ arg.nb_of_reweights > 0 /\ arg.max_nb_of_iter > 0
    /\ pc = "failed" /\ error = "ValueError"

\* C2: in manual mode, whatever number of reweights is requested, the
\* number in use is 0, no reweighting object exists or is called, no
\* continuation pass runs and the dual proximity operator keeps weights
\* filled with mu that no reweighting has touched.
C2_ManualModeNeverReweights ==
    (arg.std_est_method = "None" /\ Derived) =>
        /\ loc.nb_of_reweights = 0
        /\ reweight_op = NullRef
        /\ "reweight_op.reweight" \notin Range(trace)
        /\ "opt.iterate" \notin Range(trace)
        /\ stats.cont = <<>>
        /\ pc \notin {"set_weights", "iterate"}
        /\ error # "AttributeError"
        /\ prox_dual_op = loc.weights
        /\ heap[prox_dual_op] = Filled(arg.mu)

C2_Witness ==
    /\ arg.std_est_method = "None"
    /\ arg.nb_of_reweights > 0
    /\ pc = "done"
    /\ stats.first > 0

\* C3: with max_nb_of_iter = 0 a call fails only for an unrecognised mode
\* or a zero tau, and when it returns, it returns the all-zero primal array
\* and the coefficients of the all-zero dual array, with no update applied.
C3_ZeroIterationsIsNoOp ==
    arg.max_nb_of_iter = 0 =>
        /\ (pc = "failed" => error \in {"ValueError", "ZeroDivisionError"})
        /\ (pc = "done" =>
               /\ result = <<ZeroArr, Coeff(ZeroArr)>>
               /\ "opt.update" \notin Range(trace)
               /\ cost_op.iteration = 0)

C3_Witness ==
    /\ arg.max_nb_of_iter = 0
    /\ arg.std_est_method \in {"primal", "dual"}
    /\ loc.nb_of_reweights > 0
    /\ Len(stats.cont) = loc.nb_of_reweights
    /\ pc = "done"

\* C4: the returned pair is the iterator's primal array and the
\* coefficients of its dual array as the last update of the call left
\* them: every update of the first pass and of every continuation is in it.
C4_ReturnsFinalPair ==
    pc = "done" =>
        /\ result = <<heap[opt.x_new], Coeff(heap[opt.y_new])>>
        /\ NbUpdates(result[1]) = stats.first + SumSeq(stats.cont)
        /\ NbUpdates(result[2]) = stats.first + SumSeq(stats.cont)

C4_Witness ==
    /\ pc = "done"
    /\ stats.first > 0
    /\ Len(stats.cont) > 0
    /\ SumSeq(stats.cont) > 0


\* beta/2 + sigma * L^2 for the step sizes and spectral bounds in use
Bound(sigma) ==
    RAdd(RNorm(arg.spec_rad, 2), RMul(sigma, RInt(arg.l2norm * arg.l2norm)))

\* 1/tau - sigma*L^2 >= beta/2, for tau > 0, as tau*(beta/2 + sigma*L^2) <= 1
InequalityHolds == RGeq(RInt(1), RMul(loc.tau, Bound(loc.sigma)))

ExampleOperators == arg.spec_rad = 2 /\ arg.l2norm = 1 /\ loc.sigma = <<1, 2>>

CertificateMatches ==
    StepSizesSet => (loc.convergence_test <=> InequalityHolds)

\* C5 as stated: the certificate is the truth value of
\* 1/tau - sigma*L^2 >= beta/2, and it is true for beta = 2, L = 1,
\* sigma = 0.5 and tau = 1/(1 + 0.25 + eps).
C5_AsStated ==
    /\ CertificateMatches
    /\ (StepSizesSet /\ ExampleOperators /\ loc.tau = TauQuarter)
           => loc.convergence_test

\* C5 amended: the certificate is the truth value of
\* 1/tau - sigma*L^2 >= beta/2; for beta = 2, L = 1, sigma = 0.5 it is true
\* at tau = 1/(1 + 0.5 + eps) and false at tau = 1/(1 + 0.25 + eps).
C5_CertificateIsInequality ==
    /\ CertificateMatches
    /\ (StepSizesSet /\ ExampleOperators /\ loc.tau = TauHalf)
           => loc.convergence_test
    /\ (StepSizesSet /\ ExampleOperators /\ loc.tau = TauQuarter)
           => ~loc.convergence_test

C5_Witness ==
    /\ StepSizesSet /\ ExampleOperators
    /\ arg.tau = TauHalf
    /\ loc.convergence_test
    /\ pc = "done"

\* C6: the step sizes the iterator is built with, and the ones printed, are
\* the supplied ones whenever they are supplied, whatever beta and L are;
\* a missing sigma is 0.5 and a missing tau is the number whose product
\* with beta/2 + sigma*L^2 + eps is 1.
C6_SuppliedStepSizesBypass ==
    opt.built =>
        /\ opt.sigma = (IF IsNone(arg.sigma) THEN <<1, 2>> ELSE arg.sigma)
        /\ IF IsNone(arg.tau)
           THEN RMul(opt.tau, RAdd(Bound(opt.sigma), eps)) = RInt(1)
           ELSE opt.tau = arg.tau
        /\ arg.verbose > 0 =>
               /\ Line("tau", opt.tau) \in Range(out)
               /\ Line("sigma", opt.sigma) \in Range(out)

C6_Witness ==
    /\ opt.built
    /\ arg.tau = TauQuarter /\ arg.sigma = RInt(1)
    /\ arg.spec_rad = 2 /\ arg.l2norm = 2
    /\ arg.verbose > 0
    /\ stats.first > 0

\* C7: a call repeated with only the verbosity changed makes the same
\* operator and iterator calls in the same order, ends the same way (returns
\* or raises the same error) and returns the same pair.
C7_VerbosityDoesNotAffectResult ==
    (call = 2 /\ Ended) =>
        /\ prev.outcome = pc
        /\ prev.error = error
        /\ prev.trace = trace
        /\ prev.result = result

C7_Witness ==
    /\ call = 2 /\ pc = "done"
    /\ prev.verbose # arg.verbose
    /\ "reweight_op.reweight" \in Range(trace)
    /\ "opt.update" \in Range(trace)

PassesBounded ==
    /\ stats.first <= arg.max_nb_of_iter
    /\ (pc \in {"rw_loop", "set_weights", "iterate", "done"}
            => stats.first = arg.max_nb_of_iter)
    /\ Len(stats.cont) <= loc.nb_of_reweights
    /\ \A k \in 1 .. Len(stats.cont) : stats.cont[k] = arg.max_nb_of_iter
    /\ (pc = "done" => Len(stats.cont) = loc.nb_of_reweights)
    /\ cost_op.iteration = stats.first + SumSeq(stats.cont)
    /\ cost_op.iteration <= arg.max_nb_of_iter * (1 + arg.nb_of_reweights)

\* Steps the call can still take: the straight-line part left, the updates
\* left in the first pass and three steps for each reweight left.
Remaining ==
    LET rw == 3 * (loc.nb_of_reweights - loc.reweight_index)
        body == (arg.max_nb_of_iter - loc.i) + 2 + rw
    IN  CASE pc = "start" -> 7 + body
          [] pc = "check" -> 6 + body
          [] pc = "alloc" -> 5 + body
          [] pc = "derive" -> 4 + body
          [] pc = "stepsize" -> 3 + body
          [] pc = "init_pd" -> 2 + body
          [] pc = "build" -> 1 + body
          [] pc = "first_pass" -> body
          [] pc = "rw_loop" -> rw + 1
          [] pc = "set_weights" -> rw
          [] pc = "iterate" -> rw - 1
          [] OTHER -> 0

\* Some step of the call can be taken (StepSize has no guard but its
\* position).
CanStep ==
    \/ pc = "stepsize"
    \/ ENABLED (Begin \/ CheckMethod \/ AllocInit \/ Derive \/ InitPrimalDual
                \/ BuildOptimizer \/ FirstPassUpdate \/ FirstPassEnd
                \/ Reweight \/ SetProxWeights \/ Iterate \/ Finish)

\* C8: every call ends, each of its steps bringing it closer to the end by
\* a count fixed by max_nb_of_iter and nb_of_reweights alone; the first pass
\* makes exactly max_nb_of_iter updates, there are as many continuation
\* passes as reweights in use, each of max_nb_of_iter updates whatever the
\* converged flag says, and the total is at most
\* max_nb_of_iter * (1 + nb_of_reweights).
C8_IterationCountBounded ==
    /\ []PassesBounded
    /\ [](Remaining >= 0 /\ (Remaining = 0 <=> Ended))
    /\ [](~Ended => CanStep)
    /\ [][call' = call => Remaining' < Remaining]_vars

C8_Witness ==
    /\ pc = "done"
    /\ arg.max_nb_of_iter > 1
    /\ Len(stats.cont) > 1
    /\ stats.past_converged > arg.max_nb_of_iter

\* C9: once the iterator is built, no step of the call rebinds its primal
\* or dual array or discards what the updates made so far: each step leaves
\* the pair as it was or extends it with further updates.
C9_StateCarriesOver ==
    [][(opt.built /\ opt'.built) =>
          /\ opt'.x_new = opt.x_new /\ opt'.y_new = opt.y_new
          /\ opt.x_new = loc.primal /\ opt.y_new = loc.dual
          /\ IsPrefix(heap[opt.x_new].hist, heap'[opt.x_new].hist)
          /\ IsPrefix(heap[opt.y_new].hist, heap'[opt.y_new].hist)
          /\ heap'[opt.x_new].fill = 0 /\ heap'[opt.y_new].fill = 0
          /\ NbUpdates(heap'[opt.x_new]) = cost_op'.iteration
          /\ NbUpdates(heap'[opt.y_new]) = cost_op'.iteration]_vars

C9_Witness ==
    /\ pc = "done"
    /\ stats.first > 0
    /\ Len(stats.cont) > 1
    /\ NbUpdates(heap[opt.x_new]) = arg.max_nb_of_iter * 3

WeightRefs == {r \in {loc.weights, reweight_op, prox_dual_op} : r # NullRef}

\* C10: every weight array of the call, and the one the dual proximity
\* operator thresholds with, holds only values >= 0, for every mu, std_thr
\* and std_est the call accepts.
C10_WeightsNonNegative ==
    Derived => \A r \in WeightRefs : heap[r].fill >= 0

\* Pass that makes the j-th update of the call: 0 for the first pass, k for
\* the continuation after reweighting k.
PassOf(j) == (j - 1) \div arg.max_nb_of_iter

\* Every update recorded in the array was thresholded with weights of the
\* generation of its pass.
ThresholdedPerPass(arr) ==
    \A j \in 1 .. Len(arr.hist) :
        arr.hist[j].kind = "upd" /\ arr.hist[j].b = PassOf(j)

\* Reweighting k was computed from the solution the k passes before it left.
ReweightedFromCurrent(w) ==
    \A j \in 1 .. Len(w.hist) :
        w.hist[j].kind = "rw" =>
            w.hist[j].b = w.hist[j].a * arg.max_nb_of_iter

\* C11: in reweighting iteration k the strategy first recomputes the
\* weights from the solution of the preceding pass, then the dual proximity
\* operator is given these weights, and only then the iterator resumes:
\* every update of continuation k is thresholded with the weights of
\* reweighting k, and every update of the first pass with the initial ones.
C11_ReweightThenSetThenIterate ==
    opt.built =>
        /\ ThresholdedPerPass(heap[opt.x_new])
        /\ ThresholdedPerPass(heap[opt.y_new])
        /\ reweight_op # NullRef => ReweightedFromCurrent(heap[reweight_op])
        /\ pc = "set_weights" =>
               /\ Gen(heap[reweight_op]) = loc.reweight_index + 1
               /\ cost_op.iteration =
                      arg.max_nb_of_iter * (loc.reweight_index + 1)
        /\ pc = "iterate" =>
               /\ prox_dual_op = reweight_op
               /\ Gen(heap[prox_dual_op]) = loc.reweight_index + 1
               /\ cost_op.iteration =
                      arg.max_nb_of_iter * (loc.reweight_index + 1)
        /\ pc \in {"rw_loop", "done"} =>
               Gen(heap[prox_dual_op]) = loc.reweight_index

C11_Witness ==
    /\ pc = "done"
    /\ ~arg.rw_in_place
    /\ arg.max_nb_of_iter > 1
    /\ Len(stats.cont) > 1
    /\ heap[opt.x_new].hist[Len(heap[opt.x_new].hist)].b = Len(stats.cont)

\* -------------------------------------------------- binary64 arithmetic
\* The floats of lines 134-144 as the interpreter computes them: a double
\* is <<hi, lo, e>>, the value (hi * 2^27 + lo) * 2^e with a 53-bit
\* significand (2^52 <= hi * 2^27 + lo < 2^53), or DZero.  Every operation
\* rounds to nearest, ties to even, from three extra bits of which the last
\* is sticky.  The exponent range is not modelled (no overflow, no
\* subnormals).  Wide naturals are pairs <<hi, lo>> in base 2^27.
Limb == 2^27

W(hi, lo) == <<hi + lo \div Limb, lo % Limb>>
WAdd(x, y) == W(x[1] + y[1], x[2] + y[2])
WSub(x, y) ==
    IF x[2] >= y[2] THEN <<x[1] - y[1], x[2] - y[2]>>
    ELSE <<x[1] - y[1] - 1, x[2] + Limb - y[2]>>
WGeq(x, y) == x[1] > y[1] \/ (x[1] = y[1] /\ x[2] >= y[2])
WDbl(x) == W(2 * x[1], 2 * x[2])
WHalf(x) == <<x[1] \div 2, (x[1] % 2) * (Limb \div 2) + x[2] \div 2>>
WOdd(x) == x[2] % 2 = 1
WIsZero(x) == x[1] = 0 /\ x[2] = 0

\* x shifted right by one bit, the bit shifted out kept in the last bit
WHalfJam(x) ==
    LET h == WHalf(x)
    IN  IF WOdd(x) /\ ~WOdd(h) THEN WAdd(h, <<0, 1>>) ELSE h

\* x shifted right by k bits, 0 < k < 27, and by one limb, the bits shifted
\* out kept in the last bit
WShrJam(x, k) ==
    LET h == <<x[1] \div 2^k, (x[1] % 2^k) * 2^(27 - k) + x[2] \div 2^k>>
    IN  IF x[2] % 2^k # 0 /\ ~WOdd(h) THEN WAdd(h, <<0, 1>>) ELSE h

WLimbJam(x) ==
    LET h == W(0, x[1])
    IN  IF x[2] # 0 /\ ~WOdd(h) THEN WAdd(h, <<0, 1>>) ELSE h

RECURSIVE WShiftRightJam(_, _)
WShiftRightJam(x, n) ==
    IF n = 0 THEN x
    ELSE IF n > 60 THEN (IF WIsZero(x) THEN x ELSE <<0, 1>>)
    ELSE IF n >= 27 THEN WShiftRightJam(WLimbJam(x), n - 27)
    ELSE WShrJam(x, n)

\* x shifted left by k bits, 0 < k < 27
WShl(x, k) ==
    <<x[1] * 2^k + x[2] \div 2^(27 - k), (x[2] % 2^(27 - k)) * 2^k>>

WTimes8(x) == WDbl(WDbl(WDbl(x)))
WOver8(x) == WHalf(WHalf(WHalf(x)))

DZero == <<0, 0, 0>>
DIsZero(x) == x[1] = 0 /\ x[2] = 0
Sig(x) == <<x[1], x[2]>>

\* s * 2^e, s > 0 with three extra bits, brought to 56 bits
RECURSIVE DNormalise(_, _)
DNormalise(s, e) ==
    IF s[1] >= 2^29 THEN DNormalise(WHalfJam(s), e + 1)
    ELSE IF s[1] = 0 THEN DNormalise(<<s[2], 0>>, e - 27)
    ELSE IF s[1] < 2^14 THEN DNormalise(WShl(s, 14), e - 14)
    ELSE IF s[1] < 2^24 THEN DNormalise(WShl(s, 4), e - 4)
    ELSE IF s[1] < 2^28 THEN DNormalise(WDbl(s), e - 1)
    ELSE <<s[1], s[2], e>>

\* the double nearest to s * 2^e
DRound(s, e) ==
    IF WIsZero(s) THEN DZero
    ELSE LET n == DNormalise(s, e)
             q == WOver8(Sig(n))
             r == n[2] % 8
             up == r > 4 \/ (r = 4 /\ WOdd(q))
             m == IF up THEN WAdd(q, <<0, 1>>) ELSE q
         IN  IF m[1] >= 2^26 THEN <<2^25, 0, n[3] + 4>>
             ELSE <<m[1], m[2], n[3] + 3>>

\* float(n) for a natural n < 2^31
DFromInt(n) == DRound(WTimes8(W(0, n)), -3)

\* x * 2^k
DMulPow2(x, k) == IF DIsZero(x) THEN x ELSE <<x[1], x[2], x[3] + k>>

DIsPow2(x) == x[1] = 2^25 /\ x[2] = 0

\* x * y where one factor is a power of two (the product is then exact)
DMul(x, y) ==
    IF DIsZero(x) \/ DIsZero(y) THEN DZero
    ELSE IF DIsPow2(y) THEN DMulPow2(x, y[3] + 52)
    ELSE DMulPow2(y, x[3] + 52)

\* x >= y for x, y >= 0
DGeq(x, y) ==
    IF DIsZero(y) THEN TRUE
    ELSE IF DIsZero(x) THEN FALSE
    ELSE x[3] > y[3] \/ (x[3] = y[3] /\ WGeq(Sig(x), Sig(y)))

\* x + y for x, y >= 0
DAdd(x, y) ==
    IF DIsZero(x) THEN y
    ELSE IF DIsZero(y) THEN x
    ELSE LET big == IF x[3] >= y[3] THEN x ELSE y
             small == IF x[3] >= y[3] THEN y ELSE x
         IN  DRound(WAdd(WTimes8(Sig(big)),
                         WShiftRightJam(WTimes8(Sig(small)),
                                        big[3] - small[3])),
                    big[3] - 3)

\* x - y for x >= y >= 0
DSub(x, y) ==
    IF DIsZero(y) THEN x
    ELSE DRound(WSub(WTimes8(Sig(x)),
                     WShiftRightJam(WTimes8(Sig(y)), x[3] - y[3])),
                x[3] - 3)

\* One bit of the long division by m: st is <<remainder, quotient>>
DivStep(m, st) ==
    LET r2 == WDbl(st[1])
    IN  IF WGeq(r2, m) THEN <<WSub(r2, m), WAdd(WDbl(st[2]), <<0, 1>>)>>
        ELSE <<r2, WDbl(st[2])>>

\* n bits of the long division by m
RECURSIVE DivSteps(_, _, _)
DivSteps(m, st, n) ==
    IF n = 1 THEN DivStep(m, st)
    ELSE LET h == DivSteps(m, st, n \div 2)
         IN  IF h[1][1] >= 0 THEN DivSteps(m, h, n - n \div 2) ELSE h

\* 2^52 / m for 2^52 < m < 2^53, as q * 2^-56 where q has 56 bits, the last
\* one sticky
WDivide(m) ==
    LET d == DivSteps(m, <<<<2^25, 0>>, <<0, 0>>>>, 56)
    IN  IF WIsZero(d[1]) \/ WOdd(d[2]) THEN d[2] ELSE WAdd(d[2], <<0, 1>>)

\* 1.0 / x for x > 0
DRecip(x) ==
    IF DIsPow2(x) THEN <<2^25, 0, 0 - x[3] - 104>>
    ELSE LET q == WDivide(<<x[1], x[2]>>)
         IN  DRound(<<q[1], q[2]>>, 0 - x[3] - 108)

\* ------------------------------------- lines 134-144 in binary64 floats
\* 1.0e-8 (line 140): the double 0x1.5798ee2308c3ap-27
EpsD == <<45035996, 36736058, -79>>

\* 0.5 (line 138)
DefaultSigmaD == DMulPow2(DFromInt(1), -1)

ChosenSigmaD(sigma) == IF IsNone(sigma) THEN DefaultSigmaD ELSE sigma

\* norm ** 2 for a float norm of integer value (the product is exact)
NormSquared(norm) == DFromInt(Square(norm))

\* lipschitz_cst / 2 for a float lipschitz_cst of integer value
HalfOf(lipschitz_cst) == DMulPow2(DFromInt(lipschitz_cst), -1)

\* line 142, the sum associated from the left
DeriveTauD(lipschitz_cst, sigma, norm) ==
    DRecip(DAdd(DAdd(HalfOf(lipschitz_cst), DMul(sigma, NormSquared(norm))),
                EpsD))

ChosenTauD(tau, lipschitz_cst, sigma, norm) ==
    IF IsNone(tau) THEN DeriveTauD(lipschitz_cst, sigma, norm) ELSE tau

\* lines 143-144; the difference is negative when 1.0 / tau is below
\* sigma * norm ** 2, and lipschitz_cst / 2.0 is not
CertificateD(tau, sigma, norm, lipschitz_cst) ==
    LET u == DRecip(tau)
        v == DMul(sigma, NormSquared(norm))
    IN  DGeq(u, v) /\ DGeq(DSub(u, v), HalfOf(lipschitz_cst))

StepSizeLocalsD(l, norm, lip) ==
    LET s == ChosenSigmaD(l.sigma)
        t == ChosenTauD(l.tau, lip, s, norm)
    IN  [l EXCEPT !.norm = norm, !.lipschitz_cst = lip, !.sigma = s,
                  !.tau = t,
                  !.convergence_test =
                      IF DIsZero(t) THEN @ ELSE CertificateD(t, s, norm, lip)]

StepSizeD ==
    /\ pc = "stepsize"
    /\ trace' = Append(trace, "linear_op.l2norm")
    /\ loc' = StepSizeLocalsD(loc, arg.l2norm, arg.spec_rad)
    /\ IF DIsZero(StepSizeLocalsD(loc, arg.l2norm, arg.spec_rad).tau)
       THEN Raise("ZeroDivisionError")
       ELSE pc' = "init_pd" /\ UNCHANGED error
    /\ UNCHANGED <<arg, heap, reweight_op, prox_dual_op, opt, cost_op, out,
                   result, stats, call, prev>>

\* Calls whose step sizes are floats: tau left out (or zero), sigma left
\* out, 1.0 or 0.0, and spectral bounds of both small and large magnitude.
ArgsD ==
    [std_est_method : Methods,
     std_est : {None},
     std_thr : {2},
     mu : {1},
     tau : {None, DZero},
     sigma : {None, DFromInt(1), DZero},
     relaxation_factor : {1},
     nb_of_reweights : {1},
     max_nb_of_iter : {1},
     add_positivity : {FALSE},
     verbose : Verbosity,
     spec_rad : {0, 2, 390070272},
     l2norm : {0, 1, 13805},
     mad : {1},
     conv_at : {1},
     rw_in_place : {TRUE}]

InitD == \E a \in ArgsD : Entry(a, 1, NoPrev)

NextD ==
    \/ Begin
    \/ CheckMethod
    \/ AllocInit
    \/ Derive
    \/ StepSizeD
    \/ InitPrimalDual
    \/ BuildOptimizer
    \/ FirstPassUpdate
    \/ FirstPassEnd
    \/ Reweight
    \/ SetProxWeights
    \/ Iterate
    \/ Finish
    \/ NextCall

SpecD == InitD /\ [][NextD]_vars

\* C12: when tau is not supplied, for every Lipschitz constant beta >= 0,
\* operator norm L >= 0 and sigma >= 0 the derivation of the step sizes
\* raises no error, the derived tau is strictly positive, and the
\* convergence certificate 1/tau - sigma * L^2 >= beta/2 is true.
C12_DerivationNeverFails ==
    IsNone(arg.tau) =>
        /\ error # "ZeroDivisionError"
        /\ StepSizesSet =>
               /\ ~DIsZero(loc.tau)
               /\ loc.convergence_test

====
